---- MODULE Spec2Model ----
(***************************************************************************)
(* Model of src/app.py: the SQLite tree store (folders, components), the   *)
(* export/import codec and the session state (builder list, free text) of  *)
(* the Prompt Builder.                                                     *)
(*                                                                         *)
(* Text values are sequences of one-character strings, integers are        *)
(* SQLite integers, SQL NULL is NULL (0) for integer columns and NullText  *)
(* for text columns.  A table is a function from rowids to rows.           *)
(***************************************************************************)
EXTENDS Integers, Sequences, FiniteSets, TLC

VARIABLES folders, components, in_transaction, builder_list, free_text,
          now, prompt_text, last

vars == <<folders, components, in_transaction, builder_list, free_text,
          now, prompt_text, last>>

(* ------------------------------ bounds --------------------------------- *)
MaxFolderId == 3
MaxCompId == 2
MaxBuilderCompId == 3
MaxBuilder == 3
MaxBuilderFolderId == 2
MaxPathFolderId == 4
MaxClock == 2

(* --------------------------- values and text --------------------------- *)
NULL == 0
NullText == <<"NULL">>
HOME == <<"h", "o", "m", "e">>
SPACE == " "
NEWLINE == "\n"

FolderIds == 1..MaxFolderId
CompIds == 1..MaxCompId
BuilderCompIds == 1..MaxBuilderCompId

FolderNameArgs == {HOME, <<"a">>}
CompNameArgs == {<<"a">>}
ContentArgs == {<<"x">>}

Min(S) == CHOOSE x \in S : \A y \in S : x <= y
Max(S) == CHOOSE x \in S : \A y \in S : x >= y

RECURSIVE lstrip(_)
lstrip(s) == IF s # <<>> /\ Head(s) \in {SPACE, NEWLINE} THEN lstrip(Tail(s)) ELSE s

RECURSIVE rstrip(_)
rstrip(s) ==
  IF s # <<>> /\ s[Len(s)] \in {SPACE, NEWLINE}
    THEN rstrip(SubSeq(s, 1, Len(s) - 1))
    ELSE s

strip(s) == rstrip(lstrip(s))

(* ------------------------------ SQL layer ------------------------------ *)
\* rowid given to a row inserted without an id: one past the largest rowid
NextRowId(table) == IF DOMAIN table = {} THEN 1 ELSE Max(DOMAIN table) + 1

\* the table with row r stored under rowid i
WithRow(table, i, r) ==
  [j \in DOMAIN table \cup {i} |-> IF j = i THEN r ELSE table[j]]

\* the table without the rows of S
WithoutRows(table, S) == [j \in DOMAIN table \ S |-> table[j]]

\* idx_unique_folder_name_per_parent: would row (parent_id, name) stored under
\* rowid i collide with another row?  SQLite treats NULLs as distinct in a
\* UNIQUE index, so a row with a NULL parent_id never collides.
UniqueViolated(f, i, name, parent_id) ==
  /\ parent_id # NULL
  /\ \E j \in DOMAIN f \ {i} : f[j].parent_id = parent_id /\ f[j].name = name

\* the same check with foreign_keys = OFF: any reference is accepted
ForeignKeyOkMutant(f, ref) == TRUE

\* REFERENCES folders(id), checked at the end of the statement (foreign_keys = ON)
ForeignKeyOk(f, ref) == ref = NULL \/ ref \in DOMAIN f

\* INSERT INTO folders (id, name, parent_id) VALUES (...): the new table, or
\* ok = FALSE when a constraint fails (the statement changes nothing)
InsertFolder(f, id, name, parent_id) ==
  LET i == IF id = NULL THEN NextRowId(f) ELSE id
      r == [name |-> name, parent_id |-> parent_id]
  IN IF \/ i \in DOMAIN f
        \/ name = NullText
        \/ UniqueViolated(f, i, name, parent_id)
        \/ ~ForeignKeyOk(WithRow(f, i, r), parent_id)
       THEN [ok |-> FALSE, folders |-> f, id |-> NULL]
       ELSE [ok |-> TRUE, folders |-> WithRow(f, i, r), id |-> i]

\* INSERT INTO components (id, name, content, folder_id, created_at, updated_at)
InsertComponent(f, c, row) ==
  LET i == IF row.id = NULL THEN NextRowId(c) ELSE row.id
      r == [name |-> row.name, content |-> row.content, folder_id |-> row.folder_id,
            created_at |-> row.created_at, updated_at |-> row.updated_at]
  IN IF \/ i \in DOMAIN c
        \/ row.name = NullText
        \/ row.content = NullText
        \/ row.created_at = NULL
        \/ row.updated_at = NULL
        \/ ~ForeignKeyOk(f, row.folder_id)
       THEN [ok |-> FALSE, components |-> c, id |-> NULL]
       ELSE [ok |-> TRUE, components |-> WithRow(c, i, r), id |-> i]

\* rows removed by DELETE FROM folders WHERE id = ?: the row and, through
\* parent_id ... ON DELETE CASCADE, every row below it
RECURSIVE CascadeFrom(_, _)
CascadeFrom(f, S) ==
  LET more == {j \in DOMAIN f : f[j].parent_id \in S} \ S
  IN IF more = {} THEN S ELSE CascadeFrom(f, S \cup more)

\* the same DELETE with foreign_keys = OFF: nothing cascades
CascadeRowsMutant(f, id) == IF id \in DOMAIN f THEN {id} ELSE {}

CascadeRows(f, id) == IF id \in DOMAIN f THEN CascadeFrom(f, {id}) ELSE {}

\* folder_id ... ON DELETE SET NULL
SetNullOnDelete(c, gone) ==
  [i \in DOMAIN c |-> IF c[i].folder_id \in gone
                        THEN [c[i] EXCEPT !.folder_id = NULL]
                        ELSE c[i]]

(* --------------------------- store functions --------------------------- *)
\* SELECT id FROM folders WHERE parent_id IS NULL AND name='home'
HomeRows(f) == {i \in DOMAIN f : f[i].parent_id = NULL /\ f[i].name = HOME}

\* fetchone() of that query: the index scan yields the smallest rowid first
HomeRow(f) == Min(HomeRows(f))

\* INSERT OR IGNORE INTO folders (name, parent_id) VALUES ('home', NULL)
InsertOrIgnoreHome(f) ==
  LET r == InsertFolder(f, NULL, HOME, NULL)
  IN IF r.ok THEN r.folders ELSE f

\* UPDATE components SET folder_id = ? WHERE folder_id IS NULL
AdoptOrphans(c, home_id) ==
  [i \in DOMAIN c |-> IF c[i].folder_id = NULL
                        THEN [c[i] EXCEPT !.folder_id = home_id]
                        ELSE c[i]]

\* the tables init_db leaves
InitDbFolders(f) == InsertOrIgnoreHome(f)
InitDbComponents(f, c) == AdoptOrphans(c, HomeRow(InitDbFolders(f)))

\* the folders table get_home_folder_id leaves, and the id it returns
HomeEnsured(f) == IF HomeRows(f) = {} THEN InsertFolder(f, NULL, HOME, NULL).folders ELSE f
HomeId(f) == HomeRow(HomeEnsured(f))

\* last: the outcome of the most recent call when that call was one of the
\* compound operations (recursive delete, import, component deletion dialog,
\* prompt assembly): its name, its result, and how many folder rows, component
\* rows and builder entries it removed.  Any other call resets it to NoCall.
Call(op, ret, nf, nc, nb) == [op |-> op, ret |-> ret, nf |-> nf, nc |-> nc, nb |-> nb]
NoCall == Call("none", "none", 0, 0, 0)

init_db ==
  /\ NextRowId(folders) <= MaxFolderId
  /\ folders' = InitDbFolders(folders)
  /\ components' = InitDbComponents(folders, components)
  /\ in_transaction' = FALSE
  /\ last' = NoCall
  /\ UNCHANGED <<builder_list, free_text, now, prompt_text>>

get_home_folder_id ==
  /\ HomeRows(folders) = {} => NextRowId(folders) <= MaxFolderId
  /\ folders' = HomeEnsured(folders)
  /\ in_transaction' = IF HomeRows(folders) = {} THEN FALSE ELSE in_transaction
  /\ last' = NoCall
  /\ UNCHANGED <<components, builder_list, free_text, now, prompt_text>>

create_folder(name, parent_id) ==
  LET r == InsertFolder(folders, NULL, name, parent_id)
  IN /\ NextRowId(folders) <= MaxFolderId
     /\ folders' = r.folders
     /\ in_transaction' = ~r.ok
     /\ last' = NoCall
     /\ UNCHANGED <<components, builder_list, free_text, now, prompt_text>>

(* ------------------------------ ordering ------------------------------- *)
\* byte value of a character (ORDER BY name compares bytes)
Code(ch) ==
  CASE ch = NEWLINE -> 10
    [] ch = SPACE -> 32
    [] ch = "/" -> 47
    [] ch = "a" -> 97
    [] ch = "b" -> 98
    [] ch = "e" -> 101
    [] ch = "h" -> 104
    [] ch = "m" -> 109
    [] ch = "o" -> 111
    [] ch = "x" -> 120
    [] ch = "y" -> 121
    [] ch = "z" -> 122

RECURSIVE TextLess(_, _)
TextLess(s, t) ==
  IF t = <<>> THEN FALSE
  ELSE IF s = <<>> THEN TRUE
  ELSE IF Head(s) = Head(t) THEN TextLess(Tail(s), Tail(t))
  ELSE Code(Head(s)) < Code(Head(t))

\* the rowids of S as a sequence ORDER BY name (equal names in rowid order)
RECURSIVE OrderByName(_, _)
OrderByName(f, S) ==
  IF S = {} THEN <<>>
  ELSE LET first == CHOOSE i \in S : \A j \in S \ {i} :
                      \/ TextLess(f[i].name, f[j].name)
                      \/ (f[i].name = f[j].name /\ i < j)
       IN <<first>> \o OrderByName(f, S \ {first})

\* the rowids of S as a sequence ORDER BY id
RECURSIVE OrderById(_)
OrderById(S) ==
  IF S = {} THEN <<>> ELSE <<Min(S)>> \o OrderById(S \ {Min(S)})

Range(s) == {s[k] : k \in 1..Len(s)}

\* the same query with ORDER BY id
ListFoldersByParentMutant(f, parent_id) ==
  OrderById({i \in DOMAIN f : f[i].parent_id = parent_id})

\* list_folders_by_parent: the ids of the rows, in the order returned
list_folders_by_parent(f, parent_id) ==
  OrderByName(f, {i \in DOMAIN f : f[i].parent_id = parent_id})

\* list_components_by_folder
list_components_by_folder(c, folder_id) ==
  OrderByName(c, {i \in DOMAIN c : c[i].folder_id = folder_id})

\* the while loop of get_descendant_folder_ids
RECURSIVE DescendantLoop(_, _, _)
DescendantLoop(f, ids, stack) ==
  IF stack = <<>> THEN ids
  ELSE LET pid == stack[Len(stack)]
           rows == list_folders_by_parent(f, pid)
       IN DescendantLoop(f, ids \o rows, SubSeq(stack, 1, Len(stack) - 1) \o rows)

get_descendant_folder_ids(f, folder_id) == DescendantLoop(f, <<folder_id>>, <<folder_id>>)

\* the loop ends unless a folder below folder_id is its own parent (the only
\* cycle the foreign key admits); otherwise the call never returns
DescendantLoopEnds(f, folder_id) ==
  \A j \in CascadeRows(f, folder_id) : f[j].parent_id # j

get_component_ids_in_folders(c, folder_ids) ==
  IF folder_ids = <<>> THEN <<>>
  ELSE OrderById({i \in DOMAIN c : c[i].folder_id \in Range(folder_ids)})

\* builder_list = [cid for cid in builder_list if cid not in comp_id_set]
\* the builder list left as it was
WithoutIdsMutant(list, gone) == list

WithoutIds(list, gone) == SelectSeq(list, LAMBDA cid : cid \notin gone)

(* ----------------------- folder operations ----------------------------- *)
\* UPDATE folders SET name = ? WHERE id = ?
rename_folder(folder_id, new_name) ==
  LET hit == folder_id \in DOMAIN folders
      bad == hit /\ UniqueViolated(folders, folder_id, new_name, folders[folder_id].parent_id)
  IN /\ folders' = IF hit /\ ~bad
                     THEN [folders EXCEPT ![folder_id].name = new_name]
                     ELSE folders
     /\ in_transaction' = bad
     /\ last' = NoCall
     /\ UNCHANGED <<components, builder_list, free_text, now, prompt_text>>

delete_folder(folder_id) ==
  LET children == list_folders_by_parent(folders, folder_id)
      comps == list_components_by_folder(components, folder_id)
      refused == children # <<>> \/ comps # <<>>
      gone == CascadeRows(folders, folder_id)
  IN /\ folders' = IF refused THEN folders ELSE WithoutRows(folders, gone)
     /\ components' = IF refused THEN components ELSE SetNullOnDelete(components, gone)
     /\ in_transaction' = IF refused THEN in_transaction ELSE FALSE
     /\ last' = NoCall
     /\ UNCHANGED <<builder_list, free_text, now, prompt_text>>

\* the tables, builder list and return value delete_folder_recursive leaves
DeleteFolderRecursive(f0, c0, intx, list, folder_id) ==
  LET f1 == HomeEnsured(f0)
      intx1 == IF HomeRows(f0) = {} THEN FALSE ELSE intx
  IN IF folder_id = HomeRow(f1)
       THEN [ret |-> "false", folders |-> f1, components |-> c0,
             in_transaction |-> intx1, builder_list |-> list, nf |-> 0, nc |-> 0, nb |-> 0]
       ELSE LET folder_ids == get_descendant_folder_ids(f1, folder_id)
                comp_ids == get_component_ids_in_folders(c0, folder_ids)
                c1 == WithoutRows(c0, Range(comp_ids))
                gone == CascadeRows(f1, folder_id)
            IN [ret |-> "ok",
                folders |-> WithoutRows(f1, gone),
                components |-> SetNullOnDelete(c1, gone),
                in_transaction |-> FALSE,
                builder_list |-> IF comp_ids # <<>> THEN WithoutIds(list, Range(comp_ids)) ELSE list,
                nf |-> Cardinality(gone), nc |-> Len(comp_ids),
                nb |-> Len(list) - Len(WithoutIds(list, Range(comp_ids)))]

delete_folder_recursive(folder_id) ==
  LET r == DeleteFolderRecursive(folders, components, in_transaction, builder_list, folder_id)
  IN /\ HomeRows(folders) = {} => NextRowId(folders) <= MaxFolderId
     /\ DescendantLoopEnds(HomeEnsured(folders), folder_id)
     /\ folders' = r.folders
     /\ components' = r.components
     /\ in_transaction' = r.in_transaction
     /\ builder_list' = r.builder_list
     /\ last' = Call("delete_folder_recursive", r.ret, r.nf, r.nc, r.nb)
     /\ UNCHANGED <<free_text, now, prompt_text>>

\* delete_folder_recursive up to its first commit: the components of the
\* subtree are deleted and committed, the builder list is filtered, and the
\* call ends there because the DELETE FROM folders raises (or the process
\* stops); no transaction spans the two statements
delete_folder_recursive_stopped(folder_id) ==
  LET f1 == HomeEnsured(folders)
      folder_ids == get_descendant_folder_ids(f1, folder_id)
      comp_ids == get_component_ids_in_folders(components, folder_ids)
      list == IF comp_ids # <<>> THEN WithoutIds(builder_list, Range(comp_ids)) ELSE builder_list
  IN /\ HomeRows(folders) = {} => NextRowId(folders) <= MaxFolderId
     /\ DescendantLoopEnds(f1, folder_id)
     /\ folder_id # HomeRow(f1)
     /\ folders' = f1
     /\ components' = WithoutRows(components, Range(comp_ids))
     /\ in_transaction' = TRUE
     /\ builder_list' = list
     /\ last' = Call("delete_folder_recursive", "raised", 0, Len(comp_ids),
                     Len(builder_list) - Len(list))
     /\ UNCHANGED <<free_text, now, prompt_text>>

(* ---------------------- component operations --------------------------- *)
get_component(c, component_id) == component_id \in DOMAIN c

\* the tables create_component leaves
CreateComponent(f0, c0, name, folder_id, t) ==
  LET f1 == IF folder_id = NULL THEN HomeEnsured(f0) ELSE f0
      fid == IF folder_id = NULL THEN HomeRow(f1) ELSE folder_id
      r == InsertComponent(f1, c0, [id |-> NULL, name |-> name, content |-> <<>>,
                                    folder_id |-> fid, created_at |-> t, updated_at |-> t])
  IN [ok |-> r.ok, folders |-> f1, components |-> r.components]

create_component(name, folder_id) ==
  LET r == CreateComponent(folders, components, name, folder_id, now)
  IN /\ (folder_id = NULL /\ HomeRows(folders) = {}) => NextRowId(folders) <= MaxFolderId
     /\ folders' = r.folders
     /\ components' = r.components
     /\ in_transaction' = ~r.ok
     /\ last' = NoCall
     /\ UNCHANGED <<builder_list, free_text, now, prompt_text>>

\* UPDATE components SET name = ?, updated_at = datetime('now') WHERE id = ?
RenameComponent(c, component_id, new_name, t) ==
  IF component_id \in DOMAIN c
    THEN [c EXCEPT ![component_id].name = new_name, ![component_id].updated_at = t]
    ELSE c

rename_component(component_id, new_name) ==
  /\ components' = RenameComponent(components, component_id, new_name, now)
  /\ in_transaction' = FALSE
  /\ last' = NoCall
  /\ UNCHANGED <<folders, builder_list, free_text, now, prompt_text>>

\* UPDATE components SET content = ?, updated_at = datetime('now') WHERE id = ?
UpdateComponentContent(c, component_id, new_content, t) ==
  IF component_id \in DOMAIN c
    THEN [c EXCEPT ![component_id].content = new_content, ![component_id].updated_at = t]
    ELSE c

update_component_content(component_id, new_content) ==
  /\ components' = UpdateComponentContent(components, component_id, new_content, now)
  /\ in_transaction' = FALSE
  /\ last' = NoCall
  /\ UNCHANGED <<folders, builder_list, free_text, now, prompt_text>>

\* the tables move_component leaves
MoveComponent(f0, c0, component_id, new_folder_id, t) ==
  LET f1 == IF new_folder_id = NULL THEN HomeEnsured(f0) ELSE f0
      fid == IF new_folder_id = NULL THEN HomeRow(f1) ELSE new_folder_id
      hit == component_id \in DOMAIN c0
      bad == hit /\ ~ForeignKeyOk(f1, fid)
  IN [ok |-> ~bad, folders |-> f1,
      components |-> IF hit /\ ~bad
                       THEN [c0 EXCEPT ![component_id].folder_id = fid,
                                       ![component_id].updated_at = t]
                       ELSE c0]

move_component(component_id, new_folder_id) ==
  LET r == MoveComponent(folders, components, component_id, new_folder_id, now)
  IN /\ (new_folder_id = NULL /\ HomeRows(folders) = {}) => NextRowId(folders) <= MaxFolderId
     /\ folders' = r.folders
     /\ components' = r.components
     /\ in_transaction' = ~r.ok
     /\ last' = NoCall
     /\ UNCHANGED <<builder_list, free_text, now, prompt_text>>

\* DELETE FROM components WHERE id = ?
DeleteComponent(c, component_id) == WithoutRows(c, {component_id})

delete_component(component_id) ==
  /\ components' = DeleteComponent(components, component_id)
  /\ in_transaction' = FALSE
  /\ last' = NoCall
  /\ UNCHANGED <<folders, builder_list, free_text, now, prompt_text>>

\* datetime('now') moves on between two calls
Tick ==
  /\ now < MaxClock
  /\ now' = now + 1
  /\ UNCHANGED <<folders, components, in_transaction, builder_list, free_text, prompt_text, last>>

EmptyTable == [i \in {} |-> NULL]

(* --------------------------- export / import --------------------------- *)
FolderRow(f, i) == [id |-> i, name |-> f[i].name, parent_id |-> f[i].parent_id]

ComponentRow(c, i) ==
  [id |-> i, name |-> c[i].name, content |-> c[i].content, folder_id |-> c[i].folder_id,
   created_at |-> c[i].created_at, updated_at |-> c[i].updated_at]

\* the payload export_db_to_json serialises: both tables as lists ORDER BY id
export_db_to_json(f, c) ==
  LET fids == OrderById(DOMAIN f)
      cids == OrderById(DOMAIN c)
  IN [kind |-> "object",
      folders |-> [k \in 1..Len(fids) |-> FolderRow(f, fids[k])],
      components |-> [k \in 1..Len(cids) |-> ComponentRow(c, cids[k])]]

\* for f in folders: INSERT INTO folders ...   (stops at the first failure)
RECURSIVE InsertFolders(_, _)
InsertFolders(f, rows) ==
  IF rows = <<>> THEN [ok |-> TRUE, folders |-> f]
  ELSE LET r == InsertFolder(f, Head(rows).id, Head(rows).name, Head(rows).parent_id)
       IN IF r.ok THEN InsertFolders(r.folders, Tail(rows))
                  ELSE [ok |-> FALSE, folders |-> f]

\* for c in components: INSERT INTO components ...
RECURSIVE InsertComponents(_, _, _)
InsertComponents(f, c, rows) ==
  IF rows = <<>> THEN [ok |-> TRUE, components |-> c]
  ELSE LET r == InsertComponent(f, c, Head(rows))
       IN IF r.ok THEN InsertComponents(f, r.components, Tail(rows))
                  ELSE [ok |-> FALSE, components |-> c]

\* except Exception: cur.execute("ROLLBACK"): the table as it was at BEGIN
RollbackMutant(prior, partial) == partial

Rollback(prior, partial) == prior

\* the tables and outcome import_db_from_json leaves.  PRAGMA foreign_keys = OFF
\* is issued after BEGIN, where SQLite ignores it: the foreign keys stay enforced.
ImportDb(f0, c0, intx, payload) ==
  IF payload.kind = "invalid_json"
    THEN [ret |-> "JSONDecodeError", folders |-> f0, components |-> c0, in_transaction |-> intx]
  ELSE IF payload.kind # "object"
    THEN [ret |-> "ValueError", folders |-> f0, components |-> c0, in_transaction |-> intx]
  ELSE IF intx
    THEN [ret |-> "OperationalError", folders |-> f0, components |-> c0, in_transaction |-> intx]
  ELSE LET fr == InsertFolders(EmptyTable, payload.folders)
           cr == InsertComponents(fr.folders, EmptyTable, payload.components)
       IN IF ~fr.ok
            THEN [ret |-> "IntegrityError", folders |-> Rollback(f0, fr.folders),
                  components |-> Rollback(c0, EmptyTable), in_transaction |-> FALSE]
          ELSE IF ~cr.ok
            THEN [ret |-> "IntegrityError", folders |-> Rollback(f0, fr.folders),
                  components |-> Rollback(c0, cr.components), in_transaction |-> FALSE]
          ELSE [ret |-> "ok", folders |-> InitDbFolders(fr.folders),
                components |-> InitDbComponents(fr.folders, cr.components),
                in_transaction |-> FALSE]

\* the import inserts rows up to the bound of the model
ImportWithinBounds(payload) ==
  LET fr == InsertFolders(EmptyTable, payload.folders)
  IN (payload.kind = "object" /\ fr.ok) => NextRowId(fr.folders) <= MaxFolderId

import_db_from_json(payload) ==
  LET r == ImportDb(folders, components, in_transaction, payload)
  IN /\ ImportWithinBounds(payload)
     /\ folders' = r.folders
     /\ components' = r.components
     /\ in_transaction' = r.in_transaction
     /\ last' = Call("import_db_from_json", r.ret, 0, 0, 0)
     /\ UNCHANGED <<builder_list, free_text, now, prompt_text>>

(* hand-written snapshots *)
FRow(i, name, parent_id) == [id |-> i, name |-> name, parent_id |-> parent_id]
CRow(i, folder_id) ==
  [id |-> i, name |-> <<"a">>, content |-> <<"x">>, folder_id |-> folder_id,
   created_at |-> 1, updated_at |-> 1]
Object(frows, crows) == [kind |-> "object", folders |-> frows, components |-> crows]

NotJson == [kind |-> "invalid_json", folders |-> <<>>, components |-> <<>>]
NotAnObject == [kind |-> "array", folders |-> <<>>, components |-> <<>>]
MissingFolders == [kind |-> "no_folders", folders |-> <<>>, components |-> <<>>]
MissingComponents == [kind |-> "no_components", folders |-> <<>>, components |-> <<>>]
DanglingSnapshot == Object(<<FRow(1, HOME, NULL)>>, <<CRow(1, 2)>>)
NullFolderSnapshot == Object(<<FRow(1, HOME, NULL)>>, <<CRow(1, NULL)>>)
DuplicateIdSnapshot == Object(<<FRow(1, HOME, NULL), FRow(1, <<"a">>, NULL)>>, <<>>)
NullNameSnapshot == Object(<<FRow(1, HOME, NULL), FRow(2, NullText, 1)>>, <<>>)
ChildFirstSnapshot == Object(<<FRow(2, <<"a">>, 1), FRow(1, HOME, NULL)>>, <<>>)
DuplicateSiblingSnapshot ==
  Object(<<FRow(1, HOME, NULL), FRow(2, <<"a">>, 1), FRow(3, <<"a">>, 1)>>, <<>>)
NoHomeSnapshot == Object(<<FRow(1, <<"a">>, NULL)>>, <<CRow(1, 1)>>)
DuplicateComponentSnapshot == Object(<<FRow(1, HOME, NULL)>>, <<CRow(1, 1), CRow(1, 1)>>)
\* what export_db_to_json writes for a fresh store with one folder and one component
SmallStoreSnapshot == Object(<<FRow(1, HOME, NULL), FRow(2, <<"a">>, 1)>>, <<CRow(1, 2)>>)

HandWrittenSnapshots ==
  {NotJson, NotAnObject, MissingFolders, MissingComponents, DanglingSnapshot,
   NullFolderSnapshot, DuplicateIdSnapshot, NullNameSnapshot, ChildFirstSnapshot,
   DuplicateSiblingSnapshot, NoHomeSnapshot, DuplicateComponentSnapshot,
   SmallStoreSnapshot}

\* the files a user can load: hand-written ones and the current export
Snapshots == HandWrittenSnapshots \cup {export_db_to_json(folders, components)}


(* ------------------------------ paths ---------------------------------- *)
PathSep == <<SPACE, "/", SPACE>>

\* dfs(parent_id, prefix) inside all_folders_with_paths
RECURSIVE dfs(_, _, _), dfs_rows(_, _, _)
dfs_rows(f, rows, prefix) ==
  IF rows = <<>> THEN <<>>
  ELSE LET path == prefix \o PathSep \o f[Head(rows)].name
       IN <<<<Head(rows), path>>>> \o dfs(f, Head(rows), path) \o dfs_rows(f, Tail(rows), prefix)

dfs(f, parent_id, prefix) == dfs_rows(f, list_folders_by_parent(f, parent_id), prefix)

all_folders_with_paths(f) ==
  LET home_id == HomeId(f)
  IN <<<<home_id, HOME>>>> \o dfs(HomeEnsured(f), home_id, HOME)

(* --------------------------- prompt assembly --------------------------- *)
\* for cid in builder_list: c = get_component(cid); if c: parts.append(c["content"])
RECURSIVE PartsLoop(_, _, _)
PartsLoop(c, list, parts) ==
  IF list = <<>> THEN parts
  ELSE PartsLoop(c, Tail(list),
                 IF get_component(c, Head(list))
                   THEN Append(parts, c[Head(list)].content)
                   ELSE parts)

\* a join that also ends the text with the separator
RECURSIVE JoinMutant(_, _)
JoinMutant(sep, parts) ==
  IF parts = <<>> THEN <<>> ELSE parts[1] \o sep \o JoinMutant(sep, Tail(parts))

\* sep.join(parts)
RECURSIVE Join(_, _)
Join(sep, parts) ==
  IF parts = <<>> THEN <<>>
  ELSE IF Len(parts) = 1 THEN parts[1]
  ELSE parts[1] \o sep \o Join(sep, Tail(parts))

FreePart(text) == strip(text)

build_prompt_text(c, list, text) ==
  LET parts == PartsLoop(c, list, <<>>)
      free == FreePart(text)
  IN Join(<<NEWLINE, NEWLINE>>, IF free # <<>> THEN Append(parts, free) ELSE parts)

(* ----------------------------- folder paths --------------------------- *)
\* get_folder: the row with that id, or None
get_folder(f, folder_id) == IF folder_id \in DOMAIN f THEN folder_id ELSE NULL

\* the while loop of build_folder_path: current is a row or None; the loop
\* never ends when it comes back to a row it has left (a folder that is its
\* own parent), and then the call does not return
RECURSIVE PathLoop(_, _, _, _)
PathLoop(f, current, names, left) ==
  IF current = NULL \/ (f[current].parent_id = NULL /\ f[current].name = HOME)
    THEN [returns |-> TRUE, names |-> names]
  ELSE IF current \in left
    THEN [returns |-> FALSE, names |-> names]
  ELSE PathLoop(f, IF f[current].parent_id # 0
                     THEN get_folder(f, f[current].parent_id)
                     ELSE NULL,
                Append(names, f[current].name), left \cup {current})

\* reversed(names)
Reverse(s) == [k \in 1..Len(s) |-> s[Len(s) + 1 - k]]

\* what stands for the result of a call that never returns
NoReturn == <<"no return">>

build_folder_path(f, folder_id) ==
  LET f1 == HomeEnsured(f)
      home_id == HomeRow(f1)
      loop == PathLoop(f1, get_folder(f1, folder_id), <<>>, {})
  IN IF folder_id = NULL \/ folder_id = home_id THEN HOME
     ELSE IF ~loop.returns THEN NoReturn
     ELSE HOME \o PathSep \o Join(PathSep, Reverse(loop.names))

(* ------------------------- presentation layer -------------------------- *)
\* what render_root_tree shows: the folders below home and their components
ShownFolders(f) == {row[1] : row \in Range(all_folders_with_paths(f))}
ShownComponents(f, c) == {i \in DOMAIN c : c[i].folder_id \in ShownFolders(f)}

show_new_folder_dialog(parent_id, name) ==
  LET r == InsertFolder(folders, NULL, strip(name), parent_id)
  IN /\ parent_id \in ShownFolders(folders)
     /\ folders' = IF strip(name) # <<>> THEN r.folders ELSE folders
     /\ in_transaction' = IF strip(name) # <<>> THEN ~r.ok ELSE in_transaction
     /\ last' = NoCall
     /\ UNCHANGED <<components, builder_list, free_text, now, prompt_text>>

show_new_component_dialog(folder_id, name) ==
  LET r == CreateComponent(folders, components, strip(name), folder_id, now)
  IN /\ folder_id \in ShownFolders(folders)
     /\ components' = IF strip(name) # <<>> THEN r.components ELSE components
     /\ in_transaction' = IF strip(name) # <<>> THEN ~r.ok ELSE in_transaction
     /\ last' = NoCall
     /\ UNCHANGED <<folders, builder_list, free_text, now, prompt_text>>

show_rename_folder_dialog(folder_id, new_name) ==
  LET name == strip(new_name)
      bad == UniqueViolated(folders, folder_id, name, folders[folder_id].parent_id)
  IN /\ folder_id \in ShownFolders(folders) \ {HomeId(folders)}
     /\ folders' = IF name # <<>> /\ ~bad
                     THEN [folders EXCEPT ![folder_id].name = name]
                     ELSE folders
     /\ in_transaction' = IF name # <<>> THEN bad ELSE in_transaction
     /\ last' = NoCall
     /\ UNCHANGED <<components, builder_list, free_text, now, prompt_text>>

show_delete_folder_dialog(folder_id) ==
  /\ folder_id \in ShownFolders(folders) \ {HomeId(folders)}
  /\ delete_folder_recursive(folder_id)

show_rename_component_dialog(comp_id, new_name) ==
  /\ comp_id \in ShownComponents(folders, components)
  /\ components' = IF strip(new_name) # <<>>
                     THEN RenameComponent(components, comp_id, strip(new_name), now)
                     ELSE components
  /\ in_transaction' = IF strip(new_name) # <<>> THEN FALSE ELSE in_transaction
  /\ last' = NoCall
  /\ UNCHANGED <<folders, builder_list, free_text, now, prompt_text>>

show_move_component_dialog(comp_id, sel) ==
  LET r == MoveComponent(folders, components, comp_id, sel, now)
  IN /\ comp_id \in ShownComponents(folders, components)
     /\ sel \in ShownFolders(folders)
     /\ components' = r.components
     /\ in_transaction' = ~r.ok
     /\ last' = NoCall
     /\ UNCHANGED <<folders, builder_list, free_text, now, prompt_text>>

show_delete_component_dialog(comp_id) ==
  /\ comp_id \in ShownComponents(folders, components)
  /\ components' = DeleteComponent(components, comp_id)
  /\ builder_list' = WithoutIds(builder_list, {comp_id})
  /\ in_transaction' = FALSE
  /\ last' = Call("show_delete_component_dialog", "ok", 0, 1,
                  Len(builder_list) - Len(WithoutIds(builder_list, {comp_id})))
  /\ UNCHANGED <<folders, free_text, now, prompt_text>>

\* the three conditional updates behind the Save button of the edit dialog
EditComponent(f, c, comp_id, new_name, dest, content, t) ==
  LET comp == c[comp_id]
      c1 == IF strip(new_name) # comp.name
              THEN RenameComponent(c, comp_id, strip(new_name), t)
              ELSE c
      mv == MoveComponent(f, c1, comp_id, dest, t)
      c2 == IF dest # comp.folder_id THEN mv.components ELSE c1
      c3 == IF content # comp.content
              THEN UpdateComponentContent(c2, comp_id, content, t)
              ELSE c2
  IN [components |-> c3,
      committed |-> strip(new_name) # comp.name \/ dest # comp.folder_id
                    \/ content # comp.content]

show_edit_component_dialog(comp_id, new_name, dest, content) ==
  LET r == EditComponent(folders, components, comp_id, new_name, dest, content, now)
  IN /\ comp_id \in ShownComponents(folders, components)
     /\ dest \in ShownFolders(folders)
     /\ components' = r.components
     /\ in_transaction' = IF r.committed THEN FALSE ELSE in_transaction
     /\ last' = NoCall
     /\ UNCHANGED <<folders, builder_list, free_text, now, prompt_text>>

show_import_dialog(payload) ==
  LET r == ImportDb(folders, components, in_transaction, payload)
  IN /\ ImportWithinBounds(payload)
     /\ folders' = r.folders
     /\ components' = r.components
     /\ in_transaction' = r.in_transaction
     /\ builder_list' = IF r.ret = "ok" THEN <<>> ELSE builder_list
     /\ free_text' = IF r.ret = "ok" THEN <<>> ELSE free_text
     /\ last' = Call("import_db_from_json", r.ret, 0, 0, 0)
     /\ UNCHANGED <<now, prompt_text>>

add_to_builder(component_id) ==
  /\ Len(builder_list) < MaxBuilder
  /\ builder_list' = Append(builder_list, component_id)
  /\ last' = NoCall
  /\ UNCHANGED <<folders, components, in_transaction, free_text, now, prompt_text>>

\* L[idx-1], L[idx] = L[idx], L[idx-1]   (idx counts from 0)
Swapped(L, i, j) == [L EXCEPT ![i] = L[j], ![j] = L[i]]

move_up(idx) ==
  /\ builder_list' = IF idx > 0 THEN Swapped(builder_list, idx, idx + 1) ELSE builder_list
  /\ last' = NoCall
  /\ UNCHANGED <<folders, components, in_transaction, free_text, now, prompt_text>>

move_down(idx) ==
  /\ builder_list' = IF idx < Len(builder_list) - 1
                       THEN Swapped(builder_list, idx + 2, idx + 1)
                       ELSE builder_list
  /\ last' = NoCall
  /\ UNCHANGED <<folders, components, in_transaction, free_text, now, prompt_text>>

\* builder_list.pop(idx)
remove_from_builder(idx) ==
  /\ builder_list' = SubSeq(builder_list, 1, idx) \o SubSeq(builder_list, idx + 2, Len(builder_list))
  /\ last' = NoCall
  /\ UNCHANGED <<folders, components, in_transaction, free_text, now, prompt_text>>

clear_all ==
  /\ builder_list' = <<>>
  /\ free_text' = <<>>
  /\ last' = NoCall
  /\ UNCHANGED <<folders, components, in_transaction, now, prompt_text>>

\* st.session_state.free_text = st.text_area(...)
edit_free_text(text) ==
  /\ free_text' = text
  /\ last' = NoCall
  /\ UNCHANGED <<folders, components, in_transaction, builder_list, now, prompt_text>>

\* prompt_text = build_prompt_text(conn)
render_prompt ==
  /\ prompt_text' = build_prompt_text(components, builder_list, free_text)
  /\ last' = Call("build_prompt_text", "ok", 0, 0, 0)
  /\ UNCHANGED <<folders, components, in_transaction, builder_list, free_text, now>>

\* the rows of the builder that the Build page draws buttons for
BuilderRows == {i \in 0..(Len(builder_list) - 1) : get_component(components, builder_list[i + 1])}

(* --------------------------- specifications ---------------------------- *)
NameInputs == {<<SPACE>>, <<"a", SPACE>>}
FreeTexts == {<<>>, <<SPACE>>, <<"z">>, <<SPACE, "z", NEWLINE>>}
PromptContents == {<<>>, <<"x">>, <<"y">>}

Init ==
  /\ folders = InitDbFolders(EmptyTable)
  /\ components = EmptyTable
  /\ in_transaction = FALSE
  /\ builder_list = <<>>
  /\ free_text = <<>>
  /\ now = 1
  /\ prompt_text = <<>>
  /\ last = NoCall

Next ==
  \/ init_db
  \/ get_home_folder_id
  \/ \E name \in FolderNameArgs, p \in FolderIds \cup {NULL} : create_folder(name, p)
  \/ \E id \in FolderIds, name \in FolderNameArgs : rename_folder(id, name)
  \/ \E id \in FolderIds : delete_folder(id)
  \/ \E id \in FolderIds : delete_folder_recursive(id)
  \/ /\ NextRowId(components) <= MaxCompId
     /\ \E name \in CompNameArgs, p \in FolderIds \cup {NULL} : create_component(name, p)
  \/ \E payload \in Snapshots : import_db_from_json(payload)

Spec == Init /\ [][Next]_vars

\* recursive deletion over the trees that init_db, create_folder and
\* delete_folder leave, with components stored anywhere in them
NextDelete ==
  \/ init_db
  \/ \E name \in FolderNameArgs, p \in FolderIds \cup {NULL} : create_folder(name, p)
  \/ \E id \in FolderIds : delete_folder(id)
  \/ \E id \in FolderIds : delete_folder_recursive(id)
  \/ /\ NextRowId(components) <= MaxCompId
     /\ \E name \in CompNameArgs, p \in FolderIds \cup {NULL} : create_component(name, p)

SpecDelete == Init /\ [][NextDelete]_vars

\* import over a store that holds folders and components, with and without a
\* statement left pending by a failed insert
NextImport ==
  \/ \E p \in FolderIds \cup {NULL} : create_folder(<<"a">>, p)
  \/ /\ NextRowId(components) <= MaxCompId
     /\ \E name \in CompNameArgs, p \in FolderIds \cup {NULL} : create_component(name, p)
  \/ \E payload \in Snapshots : import_db_from_json(payload)

SpecImport == Init /\ [][NextImport]_vars

\* the folder tables that create_folder calls build on the initial store:
\* any name under any folder, under no folder, or under the new row itself
RECURSIVE Grown(_)
Grown(n) ==
  IF n <= 1 THEN {InitDbFolders(EmptyTable)}
  ELSE Grown(n - 1) \cup
       {InsertFolder(f, NULL, name, p).folders :
          f \in Grown(n - 1), name \in FolderNameArgs, p \in 0..n}

PathFolderIds == 1..MaxPathFolderId

InitPaths ==
  /\ folders \in Grown(MaxPathFolderId)
  /\ components = EmptyTable
  /\ in_transaction = FALSE
  /\ builder_list = <<>>
  /\ free_text = <<>>
  /\ now = 1
  /\ prompt_text = <<>>
  /\ last = NoCall

\* folder trees of every shape, renamed and pruned
NextPaths ==
  \/ \E id \in PathFolderIds, name \in FolderNameArgs : rename_folder(id, name)
  \/ \E id \in PathFolderIds : delete_folder(id)
  \/ get_home_folder_id

SpecPaths == InitPaths /\ [][NextPaths]_vars

\* recursive deletion with its two commits: calls that run to the end and
\* calls that end after the first commit
NextAtomic ==
  \/ \E name \in FolderNameArgs, p \in FolderIds \cup {NULL} : create_folder(name, p)
  \/ /\ NextRowId(components) <= MaxCompId
     /\ \E name \in CompNameArgs, p \in FolderIds \cup {NULL} : create_component(name, p)
  \/ \E id \in FolderIds : delete_folder_recursive(id)
  \/ \E id \in FolderIds : delete_folder_recursive_stopped(id)

SpecAtomic == Init /\ [][NextAtomic]_vars

\* the component operations of the store, over a tree that grows and shrinks:
\* folders named "a" under any folder (or under themselves), and further roots
\* named "home"
NextComponents ==
  \/ \E p \in FolderIds : create_folder(<<"a">>, p)
  \/ create_folder(HOME, NULL)
  \/ \E id \in FolderIds : delete_folder(id)
  \/ \E id \in FolderIds : delete_folder_recursive(id)
  \/ /\ NextRowId(components) <= MaxCompId
     /\ \E name \in CompNameArgs, p \in FolderIds \cup {NULL} : create_component(name, p)
  \/ \E id \in CompIds, name \in CompNameArgs : rename_component(id, name)
  \/ \E id \in CompIds, text \in ContentArgs : update_component_content(id, text)
  \/ \E id \in CompIds, p \in FolderIds \cup {NULL} : move_component(id, p)
  \/ \E id \in CompIds : delete_component(id)

SpecComponents == Init /\ [][NextComponents]_vars

\* the files loaded on the Build page: one that is rejected, one that is restored
UploadedFiles == {NotJson, NullFolderSnapshot}

\* the Build page: tree dialogs that add and delete, and the builder column
NextBuilder ==
  \/ /\ NextRowId(folders) <= MaxBuilderFolderId
     /\ \E p \in FolderIds, name \in NameInputs : show_new_folder_dialog(p, name)
  \/ /\ NextRowId(components) <= MaxBuilderCompId
     /\ \E p \in FolderIds, name \in NameInputs : show_new_component_dialog(p, name)
  \/ \E id \in FolderIds : show_delete_folder_dialog(id)
  \/ \E id \in BuilderCompIds : show_delete_component_dialog(id)
  \/ \E payload \in UploadedFiles : show_import_dialog(payload)
  \/ \E id \in ShownComponents(folders, components) : add_to_builder(id)
  \/ \E idx \in BuilderRows : move_up(idx)
  \/ \E idx \in BuilderRows : move_down(idx)
  \/ \E idx \in BuilderRows : remove_from_builder(idx)
  \/ clear_all

SpecBuilder == Init /\ [][NextBuilder]_vars

\* the dialogs that name, edit and move
NextDialogs ==
  \/ /\ NextRowId(folders) <= MaxFolderId
     /\ \E p \in FolderIds, name \in NameInputs : show_new_folder_dialog(p, name)
  \/ /\ NextRowId(components) <= MaxCompId
     /\ \E p \in FolderIds, name \in NameInputs : show_new_component_dialog(p, name)
  \/ \E id \in FolderIds, name \in NameInputs : show_rename_folder_dialog(id, name)
  \/ \E id \in CompIds, name \in NameInputs : show_rename_component_dialog(id, name)
  \/ \E id \in CompIds, p \in FolderIds : show_move_component_dialog(id, p)
  \/ \E id \in ShownComponents(folders, components) :
       \E name \in NameInputs \cup {components[id].name}, p \in FolderIds,
          text \in ContentArgs \cup {components[id].content} :
            show_edit_component_dialog(id, name, p, text)
  \/ Tick

SpecDialogs == Init /\ [][NextDialogs]_vars

\* prompt assembly over every builder list, component table and free text
ComponentTables ==
  UNION {[S -> [name : {<<"a">>}, content : PromptContents, folder_id : {1},
                created_at : {1}, updated_at : {1}]] : S \in SUBSET CompIds}

BuilderLists == UNION {[1..n -> CompIds] : n \in 0..MaxBuilder}

InitPrompt ==
  /\ folders = InitDbFolders(EmptyTable)
  /\ components \in ComponentTables
  /\ in_transaction = FALSE
  /\ builder_list \in BuilderLists
  /\ free_text \in FreeTexts
  /\ now = 1
  /\ prompt_text = <<>>
  /\ last = NoCall

NextPrompt ==
  \/ render_prompt
  \/ \E text \in FreeTexts : edit_free_text(text)

SpecPrompt == InitPrompt /\ [][NextPrompt]_vars

(* ------------------------------ properties ----------------------------- *)
RootFolders(f) == {i \in DOMAIN f : f[i].parent_id = NULL}

\* j lies in the subtree of F: F is met walking up the parent references from j
RECURSIVE ReachesUp(_, _, _, _)
ReachesUp(f, j, F, fuel) ==
  \/ j = F
  \/ /\ fuel > 0
     /\ f[j].parent_id \in DOMAIN f
     /\ ReachesUp(f, f[j].parent_id, F, fuel - 1)

Subtree(f, F) == {j \in DOMAIN f : ReachesUp(f, j, F, Cardinality(DOMAIN f))}

\* C1: in every reachable state exactly one folder has a null parent, and that
\* folder is named "home".
C1_SingleRootNamedHome ==
  /\ Cardinality(RootFolders(folders)) = 1
  /\ \A i \in RootFolders(folders) : folders[i].name = HOME

\* C2: delete_folder_recursive(F) of a non-root folder F removes exactly the
\* folders of F's subtree and the components stored in them; every other folder
\* and component is still there, unchanged.
C2_RecursiveDeleteFrame ==
  [][\A F \in FolderIds :
       (/\ F \in DOMAIN folders
        /\ folders[F].parent_id # NULL
        /\ delete_folder_recursive(F))
       => LET sub == Subtree(folders, F)
              inside == {c \in DOMAIN components : components[c].folder_id \in sub}
          IN /\ last'.ret = "ok"
             /\ DOMAIN folders \ DOMAIN folders' = sub
             /\ \A j \in DOMAIN folders \ sub : folders'[j] = folders[j]
             /\ DOMAIN components \ DOMAIN components' = inside
             /\ \A c \in DOMAIN components \ inside : components'[c] = components[c]]_vars

\* a recursive delete has just removed a folder with a subfolder and a component
\* in it, and a component outside the subtree is still stored
C2_Witness ==
  /\ last.op = "delete_folder_recursive"
  /\ last.ret = "ok"
  /\ last.nf >= 2
  /\ last.nc >= 1
  /\ components # EmptyTable

\* C3: delete_folder_recursive called with the id of the root folder returns
\* (False, reason) and leaves folders, components and the builder list unchanged.
C3_RootDeleteRejected ==
  [][\A F \in FolderIds :
       (/\ F \in RootFolders(folders)
        /\ delete_folder_recursive(F))
       => /\ last'.ret = "false"
          /\ folders' = folders
          /\ components' = components
          /\ builder_list' = builder_list]_vars

\* C4: importing the snapshot that export_db_to_json has just produced yields
\* the same folders and the same components, no row added, removed or altered.
C4_RoundTripIdentity ==
  [][import_db_from_json(export_db_to_json(folders, components))
       => (folders' = folders /\ components' = components)]_vars

\* C5: importing a snapshot whose component names a folder absent from the
\* snapshot completes, and the component ends up in the root folder; no
\* component is left with a folder_id that names no folder.
C5_DanglingAdopted ==
  [][import_db_from_json(DanglingSnapshot)
       => /\ last'.ret = "ok"
          /\ \A c \in DOMAIN components' : components'[c].folder_id \in DOMAIN folders'
          /\ 1 \in DOMAIN components'
          /\ components'[1].folder_id \in RootFolders(folders')]_vars

\* snapshots whose import has to fail: a wrong envelope, a duplicate id, a null name
MustFail ==
  {NotAnObject, MissingFolders, MissingComponents, DuplicateIdSnapshot,
   NullNameSnapshot, DuplicateComponentSnapshot}

\* C6: an import that fails, at the envelope or at a row, raises and leaves the
\* folders table and the components table exactly as they were.
C6_FailedImportKeepsStore ==
  [][\A payload \in Snapshots :
       import_db_from_json(payload)
       => /\ payload \in MustFail => last'.ret # "ok"
          /\ last'.ret # "ok" => (folders' = folders /\ components' = components)]_vars

\* an import has just failed at a row insertion over a store that held several
\* folders and a component, and they are all still there
C6_Witness ==
  /\ last.op = "import_db_from_json"
  /\ last.ret = "IntegrityError"
  /\ Cardinality(DOMAIN folders) >= 2
  /\ components # EmptyTable

\* C7: in every reachable state no two folders share the same (parent_id, name).
C7_SiblingNamesUnique ==
  \A i, j \in DOMAIN folders :
    (i # j /\ folders[i].parent_id = folders[j].parent_id)
      => folders[i].name # folders[j].name

\* the characters of s from its first to its last non-blank one
Trimmed(s) ==
  LET inked == {k \in 1..Len(s) : s[k] \notin {SPACE, NEWLINE}}
  IN IF inked = {} THEN <<>> ELSE SubSeq(s, Min(inked), Max(inked))

\* C8: through the new, rename and edit component dialogs every component keeps
\* a name that is neither empty nor blank.
C8_ComponentNamesNotBlank ==
  \A c \in DOMAIN components : Trimmed(components[c].name) # <<>>

RECURSIVE Concat(_)
Concat(texts) == IF texts = <<>> THEN <<>> ELSE Head(texts) \o Concat(Tail(texts))

\* the parts with one blank line (two newlines) between neighbours
BlankLineJoined(parts) ==
  Concat([k \in 1..(2 * Len(parts) - 1) |->
            IF k % 2 = 1 THEN parts[(k + 1) \div 2] ELSE <<NEWLINE, NEWLINE>>])

\* the contents of the builder entries that name a stored component, in order
StoredContents(c, list) ==
  LET kept == SelectSeq(list, LAMBDA cid : cid \in DOMAIN c)
  IN [k \in 1..Len(kept) |-> c[kept[k]].content]

\* C9 as stated: the prompt is the stored contents in builder order, then the
\* free text when it is non-empty, joined by two newlines.
C9_PromptAsStated ==
  last.op = "build_prompt_text"
    => prompt_text =
         BlankLineJoined(StoredContents(components, builder_list)
                         \o IF free_text # <<>> THEN <<free_text>> ELSE <<>>)

\* C9: the prompt is the stored contents in builder order (duplicates kept,
\* entries naming no component skipped), then the free text stripped of leading
\* and trailing whitespace when that is non-empty, joined by two newlines.
C9_PromptText ==
  last.op = "build_prompt_text"
    => prompt_text =
         BlankLineJoined(StoredContents(components, builder_list)
                         \o IF Trimmed(free_text) # <<>>
                              THEN <<Trimmed(free_text)>>
                              ELSE <<>>)

\* a prompt has been assembled from a builder list that repeats one component,
\* names a missing one, and is followed by free text with blanks around it
C9_Witness ==
  /\ last.op = "build_prompt_text"
  /\ \E i, j \in 1..Len(builder_list) : i # j /\ builder_list[i] = builder_list[j]
                                         /\ builder_list[i] \in DOMAIN components
  /\ \E i \in 1..Len(builder_list) : builder_list[i] \notin DOMAIN components
  /\ Trimmed(free_text) # <<>>
  /\ Trimmed(free_text) # free_text
  /\ prompt_text # <<>>

\* C10: every id of the builder list names a stored component, and a deletion
\* takes the deleted ids out of the list and keeps the others in their order.
C10_BuilderReconciled ==
  /\ [](\A k \in 1..Len(builder_list) : builder_list[k] \in DOMAIN components)
  /\ [][(/\ last'.op \in {"delete_folder_recursive", "show_delete_component_dialog"}
         /\ DOMAIN components' # DOMAIN components)
        => builder_list' = SelectSeq(builder_list, LAMBDA cid : cid \in DOMAIN components')]_vars

\* a deletion has just taken an entry out of the builder list and left two
\* different ids in it
C10_Witness ==
  /\ last.op \in {"delete_folder_recursive", "show_delete_component_dialog"}
  /\ last.nb >= 1
  /\ Len(builder_list) >= 2
  /\ builder_list[1] # builder_list[2]

\* the path as stated: "home" for a folder with a null parent, and below it the
\* path of the parent followed by the folder's own name
RECURSIVE StatedPath(_, _, _)
StatedPath(f, F, fuel) ==
  IF f[F].parent_id = NULL THEN HOME
  ELSE IF fuel = 0 \/ f[F].parent_id \notin DOMAIN f THEN <<>>
  ELSE StatedPath(f, f[F].parent_id, fuel - 1) \o PathSep \o f[F].name

\* C11: for every stored folder F, build_folder_path(F) is "home" followed by
\* one segment, the folder's name, for each folder below the root on the chain
\* from the root down to F; for a root it is exactly "home".
C11_PathFollowsChain ==
  \A F \in DOMAIN folders :
    build_folder_path(folders, F) = StatedPath(folders, F, Cardinality(DOMAIN folders))

\* C12: a call of delete_folder_recursive(F), whether it runs to the end or
\* ends at a failing step, leaves either no folder and no component of F's
\* subtree, or the folders and components exactly as they were before it.
C12_AllOrNothing ==
  [][\A F \in FolderIds :
       (delete_folder_recursive(F) \/ delete_folder_recursive_stopped(F))
       => LET sub == IF F \in DOMAIN folders THEN Subtree(folders, F) ELSE {}
              inside == {c \in DOMAIN components : components[c].folder_id \in sub}
          IN \/ /\ DOMAIN folders' \cap sub = {}
                /\ DOMAIN components' \cap inside = {}
             \/ /\ folders' = folders
                /\ components' = components]_vars

\* C13: through the folder and component operations of the store every
\* component's folder_id is non-null and names a stored folder, and
\* create_component and move_component called with no folder store the id of
\* the root folder named "home".
C13_ComponentsHoused ==
  /\ [](\A c \in DOMAIN components :
          /\ components[c].folder_id # NULL
          /\ components[c].folder_id \in DOMAIN folders)
  /\ [][\A name \in CompNameArgs :
          create_component(name, NULL)
          => LET new == NextRowId(components)
             IN /\ new \in DOMAIN components'
                /\ components'[new].folder_id \in HomeRows(folders')]_vars
  /\ [][\A id \in DOMAIN components :
          move_component(id, NULL)
          => components'[id].folder_id \in HomeRows(folders')]_vars

\* a recursive delete has just removed a folder and a component stored in it,
\* and a component stored in another folder below the root is still there
C13_Witness ==
  /\ last.op = "delete_folder_recursive"
  /\ last.ret = "ok"
  /\ last.nf >= 1
  /\ last.nc >= 1
  /\ \E c \in DOMAIN components : folders[components[c].folder_id].parent_id # NULL

\* C14: neither delete_folder nor delete_folder_recursive, called with the id
\* of the root folder (the folder get_home_folder_id returns), removes that
\* folder's row, whether or not the root holds a folder or a component.
C14_RootSurvivesDeletes ==
  [][\A F \in FolderIds :
       (/\ HomeRows(folders) # {}
        /\ F = HomeRow(folders)
        /\ (delete_folder(F) \/ delete_folder_recursive(F)))
       => F \in DOMAIN folders']_vars

\* s comes before t, character by character, in the order of the byte values
LexLess(s, t) ==
  \E k \in 1..(Len(s) + 1) :
    /\ \A i \in 1..(k - 1) : i <= Len(t) /\ s[i] = t[i]
    /\ k <= Len(t)
    /\ (k <= Len(s) => Code(s[k]) < Code(t[k]))

\* C15: all_folders_with_paths lists the root first with path "home", each
\* listed folder once and immediately followed by its whole subtree, and the
\* children of one folder in lexicographic order of their names.
C15_PreOrderByName ==
  LET f == HomeEnsured(folders)
      L == all_folders_with_paths(folders)
      at(k) == L[k][1]
  IN /\ L[1] = <<HomeId(folders), HOME>>
     /\ \A j, k \in 1..Len(L) : at(j) = at(k) => j = k
     /\ \A k \in 1..Len(L) :
          LET below == {j \in 1..Len(L) : at(j) \in Subtree(f, at(k))}
          IN below = k..(k + Cardinality(below) - 1)
     /\ \A j, k \in 1..Len(L) :
          (j < k /\ f[at(j)].parent_id = f[at(k)].parent_id)
            => LexLess(f[at(j)].name, f[at(k)].name)

\* the root has two children whose name order is the reverse of their id
\* order, and the child listed first has a child of its own
C15_Witness ==
  LET L == all_folders_with_paths(folders)
  IN /\ Len(L) >= 4
     /\ folders[L[2][1]].parent_id = L[1][1]
     /\ folders[L[3][1]].parent_id = L[2][1]
     /\ folders[L[4][1]].parent_id = L[1][1]
     /\ L[4][1] < L[2][1]

\* C16: all_folders_with_paths holds exactly one entry for every folder of the
\* folders table, and the path of each entry (id, path) is build_folder_path(id).
C16_ListingMatchesPaths ==
  LET L == all_folders_with_paths(folders)
  IN /\ \A F \in DOMAIN folders :
          Cardinality({k \in 1..Len(L) : L[k][1] = F}) = 1
     /\ \A k \in 1..Len(L) : L[k][2] = build_folder_path(folders, L[k][1])
====
